---- MODULE Spec2Model ----
(***************************************************************************)
(* Model of custom_components/iss_spotter/coordinator.py                   *)
(* (ISSInfoUpdateCoordinator): the poll cycle _async_update_data and the   *)
(* three executor jobs it gathers, _get_astronaut_info,                    *)
(* _get_skyfield_sightings and _get_iss_position, with _load_satellite.    *)
(*                                                                         *)
(* Units: the wall clock and every datetime are whole minutes; event times *)
(* of the event finder are whole seconds; angles are hundredths of a       *)
(* degree (22.5 deg = 2250).  Python's None is the empty sequence and an   *)
(* object x that may be None is <<x>>.                                     *)
(***************************************************************************)
EXTENDS Integers, Sequences, FiniteSets, TLC

\* ------------------------------------------------------------------ bounds
MaxTime == 65                \* the wall clock stops advancing here
TickSteps == {30, 31}         \* minutes the clock may advance in one step

\* --------------------------------------------------------------- constants
GRACE_PERIOD == 60
ASTRONAUT_UPDATE_INTERVAL == 30
TLE_CACHE_DAYS == 3
SUN_MAX_ELEVATION == -600
MAXIMUM_MINUTES == 15
DEFAULT_MIN_MINUTES == 2

\* ------------------------------------------------------------ Python values
None == <<>>
Some(x) == <<x>>
IsNone(o) == o = <<>>
Val(o) == o[1]

\* truth value of an optional int (None and 0 are false)
TruthyInt(o) == ~IsNone(o) /\ Val(o) # 0
\* truth value of an optional list (None and [] are false)
TruthyList(o) == ~IsNone(o) /\ Len(Val(o)) > 0
\* truth value of an optional datetime (only None is false)
TruthyTime(o) == ~IsNone(o)

\* ------------------------------------------------- the sighting computation
\* An entry of the arrays (t, events) returned by satellite.find_events,
\* together with the sky at that instant: kind is 0 (rise), 1 (culminate) or
\* 2 (set); az, alt are the satellite's azimuth and altitude seen from the
\* observer, sun_alt the Sun's altitude, sunlit the satellite's illumination.
Ev(t, kind, az, alt, sun_alt, sunlit) ==
    [t |-> t, kind |-> kind, az |-> az, alt |-> alt,
     sun_alt |-> sun_alt, sunlit |-> sunlit]

directions_NoWrap ==
    << <<0, "N">>, <<2250, "NNE">>, <<4500, "NE">>, <<6750, "ENE">>,
       <<9000, "E">>, <<11250, "ESE">>, <<13500, "SE">>, <<15750, "SSE">>,
       <<18000, "S">>, <<20250, "SSW">>, <<22500, "SW">>, <<24750, "WSW">>,
       <<27000, "W">>, <<29250, "WNW">>, <<31500, "NW">>, <<33750, "NNW">> >>

directions ==
    << <<0, "N">>, <<2250, "NNE">>, <<4500, "NE">>, <<6750, "ENE">>,
       <<9000, "E">>, <<11250, "ESE">>, <<13500, "SE">>, <<15750, "SSE">>,
       <<18000, "S">>, <<20250, "SSW">>, <<22500, "SW">>, <<24750, "WSW">>,
       <<27000, "W">>, <<29250, "WNW">>, <<31500, "NW">>, <<33750, "NNW">>,
       <<36000, "N">> >>

\* indices of the table entries whose angle az_rise reaches
DirectionHits(az_rise) ==
    {i \in 1..Len(directions) : az_rise >= directions[i][1]}

Direction_Forward(az_rise) ==
    LET hits == DirectionHits(az_rise)
        first == CHOOSE i \in hits : \A j \in hits : i <= j
    IN  directions[first][2]

\* next(name for angle, name in reversed(directions) if az_rise >= angle)
Direction(az_rise) ==
    LET hits == DirectionHits(az_rise)
        last == CHOOSE i \in hits : \A j \in hits : j <= i
    IN  directions[last][2]

\* f"{duration_min}m{duration_rem}s"
DurationString(duration_min, duration_rem) ==
    <<duration_min, "m", duration_rem, "s">>

\* f"{int(max_elevation)} deg": int() truncates toward zero
ElevationString(alt) ==
    <<IF alt >= 0 THEN alt \div 100 ELSE -((-alt) \div 100), "deg">>

\* rise_dt.replace(second=0, microsecond=0).isoformat(): the start of the
\* minute the rise falls in (the zone conversion keeps the instant)
DateString(t) == t - (t % 60)

ObserverDark_Inclusive(e_culminate) == e_culminate.sun_alt <= SUN_MAX_ELEVATION

\* observer_dark: the Sun's altitude at culmination against the threshold
ObserverDark(e_culminate) == e_culminate.sun_alt < SUN_MAX_ELEVATION

\* the condition of the if that guards the body of the loop
PassVisible(e_culminate) == ObserverDark(e_culminate) /\ e_culminate.sunlit

DurationKept_AboveMinimum(duration_min, min_minutes) ==
    ~(duration_min <= min_minutes) /\ ~(duration_min > MAXIMUM_MINUTES)

DurationKept_UpToSixteen(duration_min, min_minutes) ==
    ~(duration_min < min_minutes) /\ ~(duration_min > MAXIMUM_MINUTES + 1)

\* the two duration filters (the `continue` statements)
DurationKept(duration_min, min_minutes) ==
    ~(duration_min < min_minutes) /\ ~(duration_min > MAXIMUM_MINUTES)

ProcessPass_RemainderOfMinutes(e_rise, e_culminate, e_set, min_minutes) ==
    LET duration_sec == e_set.t - e_rise.t
        duration_min == duration_sec \div 60
        duration_rem == duration_min % 60
    IN  IF PassVisible(e_culminate) /\ DurationKept(duration_min, min_minutes)
        THEN Some([date |-> DateString(e_rise.t),
                   duration |-> DurationString(duration_min, duration_rem),
                   max_elevation |-> ElevationString(e_culminate.alt),
                   appear |-> Direction(e_rise.az)])
        ELSE None

\* One iteration of the loop over the triples: None when the pass is
\* skipped, else the dict appended to sightings.
ProcessPass(e_rise, e_culminate, e_set, min_minutes) ==
    LET duration_sec == e_set.t - e_rise.t
        duration_min == duration_sec \div 60
        duration_rem == duration_sec % 60
    IN  IF PassVisible(e_culminate) /\ DurationKept(duration_min, min_minutes)
        THEN Some([date |-> DateString(e_rise.t),
                   duration |-> DurationString(duration_min, duration_rem),
                   max_elevation |-> ElevationString(e_culminate.alt),
                   appear |-> Direction(e_rise.az)])
        ELSE None

\* for i in range(0, len(events), 3): t[i], t[i + 1], t[i + 2].  Indices are
\* 1-based here.  Reading t[i + 1] or t[i + 2] past the end raises
\* IndexError; sightings is then the local list as the exception left it.
\* triples lists the (t_rise, t_culminate, t_set) the loop body worked on.
RECURSIVE SightingLoop(_, _, _, _, _)
SightingLoop(ev, i, acc, triples, min_minutes) ==
    IF i > Len(ev) THEN [err |-> "", sightings |-> acc, triples |-> triples]
    ELSE IF i + 2 > Len(ev)
    THEN [err |-> "IndexError", sightings |-> acc, triples |-> triples]
    ELSE SightingLoop(ev, i + 3,
                      acc \o ProcessPass(ev[i], ev[i + 1], ev[i + 2], min_minutes),
                      Append(triples, <<ev[i], ev[i + 1], ev[i + 2]>>),
                      min_minutes)

ComputeSightings(ev, min_minutes) == SightingLoop(ev, 1, <<>>, <<>>, min_minutes)

\* --------------------------------------------------- the roster computation
\* An entry of data["people"]; a key the document lacks is None.
Person(name, craft) == [name |-> name, craft |-> craft]

\* [astronaut["name"] for astronaut in data["people"]
\*  if astronaut["craft"] == "ISS"]: a missing key raises KeyError
RECURSIVE NamesLoop(_, _, _)
NamesLoop(people, i, acc) ==
    IF i > Len(people) THEN [err |-> "", names |-> acc]
    ELSE IF IsNone(people[i].craft) THEN [err |-> "KeyError", names |-> acc]
    ELSE IF Val(people[i].craft) # "ISS" THEN NamesLoop(people, i + 1, acc)
    ELSE IF IsNone(people[i].name) THEN [err |-> "KeyError", names |-> acc]
    ELSE NamesLoop(people, i + 1, Append(acc, Val(people[i].name)))

\* What requests.get, raise_for_status, response.json and the comprehension
\* make of one response of the people API: the exception raised, or the names.
\* A response is [net |-> "ok" | "ConnectionError", status |-> HTTP status,
\* json |-> TRUE iff the body is JSON, people |-> None or <<list>>].
ParseRoster(resp) ==
    IF resp.net # "ok" THEN [err |-> resp.net, names |-> <<>>]
    ELSE IF resp.status >= 400 THEN [err |-> "HTTPError", names |-> <<>>]
    ELSE IF ~resp.json THEN [err |-> "JSONDecodeError", names |-> <<>>]
    ELSE IF IsNone(resp.people) THEN [err |-> "KeyError", names |-> <<>>]
    ELSE NamesLoop(Val(resp.people), 1, <<>>)

\* requests.RequestException and its subclasses
RequestExceptions == {"ConnectionError", "HTTPError", "JSONDecodeError"}

\* except (requests.RequestException, ValueError, UpdateFailed): the JSON
\* decode error of requests is both a RequestException and a ValueError
CaughtAsUpdateError(exc) ==
    exc \in RequestExceptions \cup {"ValueError", "UpdateFailed"}

\* ------------------------------------------------------ results of the jobs
NoRet == [st |-> "none", val |-> <<>>, exc |-> ""]
Ret(v) == [st |-> "ret", val |-> <<v>>, exc |-> ""]
Raise(e) == [st |-> "exc", val |-> <<>>, exc |-> e]

\* ------------------------------------------------------------------- inputs
\* Responses of the people API.
OkResponse(people) == [net |-> "ok", status |-> 200, json |-> TRUE, people |-> Some(people)]
Responses ==
    { [net |-> "ConnectionError", status |-> 0, json |-> FALSE, people |-> None],
      [net |-> "ok", status |-> 503, json |-> FALSE, people |-> None],
      [net |-> "ok", status |-> 200, json |-> FALSE, people |-> None],
      [net |-> "ok", status |-> 200, json |-> TRUE, people |-> None],
      OkResponse(<<Person(Some("Ann"), None)>>),
      OkResponse(<<Person(Some("Wu"), Some("Tiangong"))>>),
      OkResponse(<<Person(Some("Wu"), Some("Tiangong")), Person(Some("Ann"), Some("ISS"))>>) }

\* Passes as find_events reports them: a night pass of 5m30s, a night pass of
\* 4m05s, and a daylight pass.
NightPassA == << Ev(600, 0, 4490, 2000, -1500, TRUE),
                 Ev(765, 1, 9000, 4550, -1500, TRUE),
                 Ev(930, 2, 13500, 2000, -1500, TRUE) >>
NightPassB == << Ev(6300, 0, 31500, 2000, -1800, TRUE),
                 Ev(6420, 1, 18000, 6190, -1800, TRUE),
                 Ev(6545, 2, 9000, 2000, -1800, TRUE) >>
DayPass ==    << Ev(600, 0, 4490, 2000, 500, TRUE),
                 Ev(765, 1, 9000, 4550, 500, TRUE),
                 Ev(930, 2, 13500, 2000, 500, TRUE) >>
\* a pass the end of the search range cuts after its culmination
CutPass ==    << Ev(12000, 0, 27000, 2000, -1800, TRUE),
                 Ev(12150, 1, 18000, 3000, -1800, TRUE) >>

EventCases ==
    { <<>>, NightPassA, DayPass, NightPassA \o NightPassB,
      NightPassA \o CutPass }

\* The sky over one pass, sampled at five instants from the rise to the set
\* (the rise, the culmination and the set are samples 1, 3 and 5): lit[k]
\* says whether the satellite is sunlit at sample k, sun_alt is the Sun's
\* altitude at the observer during the pass.
SampleTime(t_rise, duration_sec, k) == t_rise + ((k - 1) * duration_sec) \div 4

SkyOf(t_rise, duration_sec, lit, sun_alt) ==
    [k \in 1..5 |-> [t |-> SampleTime(t_rise, duration_sec, k),
                     sunlit |-> lit[k], sun_alt |-> sun_alt]]

\* the three events find_events reports for a pass under that sky
PassOf(t_rise, duration_sec, az_rise, lit, sun_alt) ==
    << Ev(SampleTime(t_rise, duration_sec, 1), 0, az_rise, 2000, sun_alt, lit[1]),
       Ev(SampleTime(t_rise, duration_sec, 3), 1, 9000, 4550, sun_alt, lit[3]),
       Ev(SampleTime(t_rise, duration_sec, 5), 2, 13500, 2000, sun_alt, lit[5]) >>

\* azimuths of the rise: the corners of the compass table, one hundredth of
\* a degree before and after each, and 44.9 deg
AzCases ==
    {a \in {k * 2250 + d : k \in 0..16, d \in {-1, 0, 1}} : a >= 0 /\ a <= 36000}
    \cup {4490}

\* the satellite leaves or enters the Earth's shadow at most once in a pass
LitPatterns ==
    { <<TRUE, TRUE, TRUE, TRUE, TRUE>>, <<FALSE, FALSE, FALSE, FALSE, FALSE>>,
      <<TRUE, TRUE, FALSE, FALSE, FALSE>>, <<FALSE, FALSE, TRUE, TRUE, TRUE>>,
      <<TRUE, TRUE, TRUE, FALSE, FALSE>>, <<FALSE, TRUE, TRUE, TRUE, TRUE>> }
SunAltCases == {-1500, -601, -600, 500}
DurationCases == {100, 120, 600, 959, 960}
MinMinutesCases == {1, 2}

\* a pass already under way at t0 (its rise is missing), a whole pass, and
\* the rise of a third pass before t1
MidPassEvents ==
    << Ev(120, 1, 18000, 3000, -1500, TRUE), Ev(300, 2, 9000, 2000, -1500, TRUE) >>
    \o NightPassA \o << Ev(6300, 0, 31500, 2000, -1800, TRUE) >>

LoopInput(events, sky, min_minutes) ==
    [events |-> events, sky |-> sky, min_minutes |-> min_minutes]
NoSky == <<>>

\* what find_events and the sky can hand to the loop
LoopInputs ==
    { LoopInput(PassOf(600, 330, az, <<TRUE, TRUE, TRUE, TRUE, TRUE>>, -1500),
                SkyOf(600, 330, <<TRUE, TRUE, TRUE, TRUE, TRUE>>, -1500), m) :
          az \in AzCases, m \in MinMinutesCases }
    \cup
    { LoopInput(PassOf(600, d, 4490, lit, sa), SkyOf(600, d, lit, sa), m) :
          d \in DurationCases, lit \in LitPatterns, sa \in SunAltCases,
          m \in MinMinutesCases }
    \cup
    { LoopInput(ev, NoSky, m) :
          ev \in {<<>>, MidPassEvents, NightPassA \o NightPassB, NightPassA \o CutPass},
          m \in MinMinutesCases }

\* Bodies of the element file: it names ISS (ZARYA), it parses but lacks the
\* ISS, or parse_tle_file raises on it.
TleContents == {"iss", "noiss", "corrupt"}

\* Outcomes of Loader.download: an I/O error, or the text written.
DownloadOutcomes == {"OSError"} \cup TleContents

\* Sub-points satellite.at(t_now).subpoint() may give.
SubPoints == { [latitude |-> 4800, longitude |-> 750, elevation |-> 420] }

\* stations.tle: mtime is the minute of its last write
NoTle == [exists |-> FALSE, mtime |-> 0, content |-> "iss"]
TleFile(mtime, content) == [exists |-> TRUE, mtime |-> mtime, content |-> content]

\* ----------------------------------------------------- the config flow inputs
\* hass.config.latitude and hass.config.longitude, in hundredths of a degree
HaLocation == [latitude |-> 4800, longitude |-> 748]

\* latitudes and longitudes a user can type into the float fields: the ends
\* of the ranges, one hundredth of a degree outside them, and values inside
LatitudeCases == {-9001, -9000, 4800, 9000, 9001}
LongitudeCases == {-18001, -18000, 748, 18000, 18001}

\* what a submitted form holds besides the location
SettingsCases ==
    { [entity_name |-> n, max_height |-> 20, sun_max_elevation |-> -6,
       min_minutes |-> m, days |-> 20] : n \in {"Home", "Roof"}, m \in MinMinutesCases }

\* user_input of a location form; latitude and longitude are None when the
\* form shown has no such fields
UserInput(settings, latitude, longitude) ==
    [entity_name |-> settings.entity_name, latitude |-> latitude,
     longitude |-> longitude, max_height |-> settings.max_height,
     sun_max_elevation |-> settings.sun_max_elevation,
     min_minutes |-> settings.min_minutes, days |-> settings.days]

\* the inputs the schema of the form shown admits
UserInputs(with_location) ==
    IF with_location
    THEN { UserInput(st, Some(la), Some(lo)) :
               st \in SettingsCases, la \in LatitudeCases, lo \in LongitudeCases }
    ELSE { UserInput(st, None, None) : st \in SettingsCases }

\* the data of a config entry
EntryData(entity_name, latitude, longitude, max_height, sun_max_elevation, min_minutes, days) ==
    [entity_name |-> entity_name, latitude |-> latitude, longitude |-> longitude,
     max_height |-> max_height, sun_max_elevation |-> sun_max_elevation,
     min_minutes |-> min_minutes, days |-> days]

\* a config entry: its title and its data
ConfigEntry(title, data) == [title |-> title, data |-> data]

\* the entry a reconfigure flow is started on
ExistingEntry ==
    ConfigEntry(<<"ISS Next Sightings ", "Home">>,
                EntryData("Home", Some(4800), Some(748), 20, -6, 2, 20))

\* ----------------------------------------------------------------- the state
VARIABLES
    now,                              \* the wall clock, in minutes
    last_valid_astronaut_count,       \* None or <<int>>
    last_valid_astronaut_names,       \* None or <<list of names>>
    last_successful_astronaut_time,   \* None or <<minute>>
    last_valid_sightings,             \* None or <<list of sightings>>
    last_successful_sighting_time,    \* None or <<minute>>
    tle,                              \* the element cache file of the Loader
    cycle,                            \* "idle" or "running": _async_update_data
    outcome,                          \* how the last finished cycle ended
    pcA, retA,                        \* executor job _get_astronaut_info
    pcS, retS,                        \* executor job _get_skyfield_sightings
    pcP, retP,                        \* executor job _get_iss_position
    requestsA,                        \* people API requests of the running job
    tryA,                             \* "", "ok" or the exception of the roster try block
    tryS,                             \* how the try block of the sighting job ended
    sinceS,                           \* None or <<time_since_last_success>> of the sighting job
    eventsS,                          \* None or <<events find_events returned>>
    fetchesS, fetchesP,               \* downloads of the element file by the running job
    beforeS,                          \* how the previous sighting job ended: "", "Stale", "Failed"
    loop_pc,                          \* "off", "input" or "done": the loop on its own
    loop_in,                          \* the events, sky and minimum handed to the loop
    loop_out,                         \* what the loop made of loop_in
    flow_pc,                          \* "off", or the step the flow is at, or how it ended
    flow_latitude, flow_longitude,    \* self._latitude, self._longitude: None or <<value>>
    flow_reconfigure_entry,           \* self._reconfigure_entry: None or <<entry>>
    flow_form,                        \* the form shown: with_location and errors
    flow_input,                       \* None or <<the last user_input submitted>>
    config_entry                      \* None or <<the config entry in the host>>

vars == <<now, last_valid_astronaut_count, last_valid_astronaut_names,
          last_successful_astronaut_time, last_valid_sightings,
          last_successful_sighting_time, tle, cycle, outcome,
          pcA, retA, pcS, retS, pcP, retP, requestsA, tryA, tryS, sinceS,
          eventsS, fetchesS, fetchesP, beforeS, loop_pc, loop_in, loop_out,
          flow_pc, flow_latitude, flow_longitude, flow_reconfigure_entry,
          flow_form, flow_input, config_entry>>

rosterCache == <<last_valid_astronaut_count, last_valid_astronaut_names,
                 last_successful_astronaut_time>>
sightingCache == <<last_valid_sightings, last_successful_sighting_time>>
jobA == <<pcA, retA, requestsA, tryA>>
jobS == <<pcS, retS, tryS, sinceS, eventsS, fetchesS, beforeS>>
jobP == <<pcP, retP, fetchesP>>
loop == <<loop_pc, loop_in, loop_out>>
flow == <<flow_pc, flow_latitude, flow_longitude, flow_reconfigure_entry,
          flow_form, flow_input, config_entry>>
coordinator == <<now, rosterCache, sightingCache, tle, cycle, outcome, jobA, jobS, jobP>>

NoLoopIn == LoopInput(<<>>, NoSky, 0)
NoLoopOut == [err |-> "", sightings |-> <<>>, triples |-> <<>>]

NoOutcome == [status |-> "none", data |-> <<>>]

\* errors = {}: no message under either key
NoErrors == [latitude |-> "", longitude |-> ""]
Form(with_location, errors) == [with_location |-> with_location, errors |-> errors]
NoForm == Form(FALSE, NoErrors)

\* no config flow is open
FlowOff ==
    /\ flow_pc = "off"
    /\ flow_latitude = None /\ flow_longitude = None
    /\ flow_reconfigure_entry = None
    /\ flow_form = NoForm
    /\ flow_input = None
    /\ config_entry = None

\* the element file as an installation can find it: absent, about to pass
\* the cache age, or past it
InitTle ==
    { NoTle,
      TleFile(30 - TLE_CACHE_DAYS * 1440, "iss"),
      TleFile(0 - TLE_CACHE_DAYS * 1440, "iss") }

\* ISSInfoUpdateCoordinator.__init__
Init ==
    /\ now = 0
    /\ last_valid_astronaut_count = None
    /\ last_valid_astronaut_names = None
    /\ last_successful_astronaut_time = None
    /\ last_valid_sightings = None
    /\ last_successful_sighting_time = None
    /\ tle \in InitTle
    /\ cycle = "idle"
    /\ outcome = NoOutcome
    /\ pcA = "idle" /\ retA = NoRet
    /\ pcS = "idle" /\ retS = NoRet
    /\ pcP = "idle" /\ retP = NoRet
    /\ requestsA = 0
    /\ tryA = ""
    /\ tryS = ""
    /\ sinceS = None
    /\ eventsS = None
    /\ fetchesS = 0 /\ fetchesP = 0
    /\ beforeS = ""
    /\ loop_pc = "off" /\ loop_in = NoLoopIn /\ loop_out = NoLoopOut
    /\ FlowOff

\* time passes
Tick ==
    /\ \E d \in TickSteps : now + d <= MaxTime /\ now' = now + d
    /\ UNCHANGED <<loop, flow>>
    /\ UNCHANGED <<rosterCache, sightingCache, tle, cycle, outcome, jobA, jobS, jobP>>

JobsAtRest == pcA \in {"idle", "done"} /\ pcS \in {"idle", "done"} /\ pcP \in {"idle", "done"}

\* how the sighting job that has ended left its except block: "Stale" when
\* it served the stored list, "Failed" when it had none to serve, "" when the
\* block was not entered
SightResilience ==
    IF tryS \notin {"fetch_error", "parse_error", "index_error"} THEN ""
    ELSE IF retS = Ret(last_valid_sightings) /\ ~IsNone(last_valid_sightings)
    THEN "Stale"
    ELSE "Failed"

\* _async_update_data up to the gather: the three jobs go to the executor.
\* The host starts a cycle when the previous one is over; the jobs of the
\* previous cycle have run to their end by then.
StartCycle ==
    /\ cycle = "idle" /\ JobsAtRest
    /\ cycle' = "running"
    /\ outcome' = NoOutcome
    /\ pcA' = "start" /\ retA' = NoRet /\ requestsA' = 0 /\ tryA' = ""
    /\ pcS' = "start" /\ retS' = NoRet /\ tryS' = "" /\ sinceS' = None
    /\ eventsS' = None /\ fetchesS' = 0 /\ beforeS' = SightResilience
    /\ pcP' = "start" /\ retP' = NoRet /\ fetchesP' = 0
    /\ UNCHANGED <<loop, flow>>
    /\ UNCHANGED <<now, rosterCache, sightingCache, tle>>

\* ------------------------------------------------------ _get_astronaut_info
\* the condition of the early return: a cached roster younger than the
\* refresh interval
RosterCacheFresh_Truthy ==
    /\ TruthyInt(last_valid_astronaut_count)
    /\ TruthyList(last_valid_astronaut_names)
    /\ TruthyTime(last_successful_astronaut_time)
    /\ (now - Val(last_successful_astronaut_time)) < ASTRONAUT_UPDATE_INTERVAL

RosterCacheFresh ==
    /\ ~IsNone(last_valid_astronaut_count)
    /\ ~IsNone(last_valid_astronaut_names)
    /\ ~IsNone(last_successful_astronaut_time)
    /\ (now - Val(last_successful_astronaut_time)) < ASTRONAUT_UPDATE_INTERVAL

\* the tuple (self._last_valid_astronaut_count, self._last_valid_astronaut_names)
CachedRoster == <<Val(last_valid_astronaut_count), Val(last_valid_astronaut_names)>>

RosterGraceUsable_NoLimit ==
    /\ TruthyInt(last_valid_astronaut_count)
    /\ TruthyList(last_valid_astronaut_names)
    /\ TruthyTime(last_successful_astronaut_time)

\* the conditions of the except block under which the cached roster is served
RosterGraceUsable ==
    /\ TruthyInt(last_valid_astronaut_count)
    /\ TruthyList(last_valid_astronaut_names)
    /\ TruthyTime(last_successful_astronaut_time)
    /\ (now - Val(last_successful_astronaut_time)) <= GRACE_PERIOD

\* the head of the function: serve the cache or go on to the request
AstronautCheck ==
    /\ pcA = "start"
    /\ IF RosterCacheFresh
       THEN pcA' = "done" /\ retA' = Ret(CachedRoster)
       ELSE pcA' = "fetch" /\ retA' = retA
    /\ UNCHANGED <<loop, flow>>
    /\ UNCHANGED <<now, rosterCache, sightingCache, tle, cycle, outcome,
                   requestsA, tryA, jobS, jobP>>

AstronautFetch_KeepTime(resp) ==
    /\ pcA = "fetch"
    /\ pcA' = "done"
    /\ requestsA' = requestsA + 1
    /\ LET r == ParseRoster(resp) IN
       /\ tryA' = IF r.err = "" THEN "ok" ELSE r.err
       /\ IF r.err = ""
          THEN /\ last_valid_astronaut_count' = Some(Len(r.names))
               /\ last_valid_astronaut_names' = Some(r.names)
               /\ last_successful_astronaut_time' =
                      IF IsNone(last_successful_astronaut_time) THEN Some(now)
                      ELSE last_successful_astronaut_time
               /\ retA' = Ret(<<Len(r.names), r.names>>)
          ELSE /\ retA' = IF ~CaughtAsUpdateError(r.err) THEN Raise(r.err)
                          ELSE IF RosterGraceUsable THEN Ret(CachedRoster)
                          ELSE Raise("UpdateFailed")
               /\ UNCHANGED rosterCache
    /\ UNCHANGED <<loop, flow>>
    /\ UNCHANGED <<now, sightingCache, tle, cycle, outcome, jobS, jobP>>

\* the try block with its except and else: the request, the parse, the
\* cache write, or the fallback
AstronautFetch(resp) ==
    /\ pcA = "fetch"
    /\ pcA' = "done"
    /\ requestsA' = requestsA + 1
    /\ LET r == ParseRoster(resp) IN
       /\ tryA' = IF r.err = "" THEN "ok" ELSE r.err
       /\ IF r.err = ""
          THEN /\ last_valid_astronaut_count' = Some(Len(r.names))
               /\ last_valid_astronaut_names' = Some(r.names)
               /\ last_successful_astronaut_time' = Some(now)
               /\ retA' = Ret(<<Len(r.names), r.names>>)
          ELSE /\ retA' = IF ~CaughtAsUpdateError(r.err) THEN Raise(r.err)
                          ELSE IF RosterGraceUsable THEN Ret(CachedRoster)
                          ELSE Raise("UpdateFailed")
               /\ UNCHANGED rosterCache
    /\ UNCHANGED <<loop, flow>>
    /\ UNCHANGED <<now, sightingCache, tle, cycle, outcome, jobS, jobP>>

\* ----------------------------------------------------------- _load_satellite
\* not exists(TLE_FILENAME) or days_old(TLE_FILENAME) >= TLE_CACHE_DAYS
NeedsRefresh_Older ==
    \/ ~tle.exists
    \/ (now - tle.mtime) > TLE_CACHE_DAYS * 1440

NeedsRefresh ==
    \/ ~tle.exists
    \/ (now - tle.mtime) >= TLE_CACHE_DAYS * 1440

\* ---------------------------------------------------- _get_skyfield_sightings
\* the conditions of the except block under which the cached list is served
SightingCachePresent ==
    TruthyList(last_valid_sightings) /\ TruthyTime(last_successful_sighting_time)

SightingGraceUsable_Strict ==
    (now - Val(last_successful_sighting_time)) < GRACE_PERIOD

SightingGraceUsable ==
    (now - Val(last_successful_sighting_time)) <= GRACE_PERIOD

\* what the except block returns: the cached list, nothing (the function
\* falls off its end), or an empty list
SightingsExcept ==
    IF SightingCachePresent
    THEN IF SightingGraceUsable THEN Ret(last_valid_sightings) ELSE Ret(None)
    ELSE Ret(Some(<<>>))

\* time_since_last_success, which the except block computes when a list is cached
SightingsExceptAge ==
    IF SightingCachePresent THEN Some(now - Val(last_successful_sighting_time))
    ELSE None

\* _load_satellite, the age check: the job enters Loader.download or goes on
\* to open the file
SightLoadCheck ==
    /\ pcS = "start"
    /\ IF NeedsRefresh
       THEN pcS' = "download" /\ fetchesS' = fetchesS + 1
       ELSE pcS' = "open" /\ fetchesS' = fetchesS
    /\ UNCHANGED <<loop, flow>>
    /\ UNCHANGED <<now, rosterCache, sightingCache, tle, cycle, outcome,
                   retS, tryS, sinceS, eventsS, beforeS, jobA, jobP>>

\* _load_satellite, the end of the download: the file is written, or an I/O
\* error ends the job in its except block
SightDownload(o) ==
    /\ pcS = "download"
    /\ IF o = "OSError"
       THEN /\ pcS' = "done" /\ tryS' = "fetch_error" /\ retS' = SightingsExcept
            /\ sinceS' = SightingsExceptAge
            /\ tle' = tle
       ELSE /\ pcS' = "open" /\ tryS' = tryS /\ retS' = retS
            /\ sinceS' = sinceS
            /\ tle' = TleFile(now, o)
    /\ UNCHANGED <<loop, flow>>
    /\ UNCHANGED <<now, rosterCache, sightingCache, cycle, outcome, eventsS,
                   fetchesS, beforeS, jobA, jobP>>

\* _load_satellite, the parse and the lookup of "ISS (ZARYA)", and the
\* `satellite is None` return
SightOpen ==
    /\ pcS = "open"
    /\ CASE tle.content = "corrupt" ->
              /\ pcS' = "done" /\ tryS' = "parse_error" /\ retS' = SightingsExcept
              /\ sinceS' = SightingsExceptAge
         [] tle.content = "noiss" ->
              /\ pcS' = "done" /\ tryS' = "not_found" /\ retS' = Ret(Some(<<>>))
              /\ sinceS' = sinceS
         [] OTHER ->
              /\ pcS' = "compute" /\ tryS' = tryS /\ retS' = retS
              /\ sinceS' = sinceS
    /\ UNCHANGED <<loop, flow>>
    /\ UNCHANGED <<now, rosterCache, sightingCache, tle, cycle, outcome, eventsS,
                   fetchesS, beforeS, jobA, jobP>>

SightCompute_StoreEmpty(ev) ==
    /\ pcS = "compute"
    /\ pcS' = "done"
    /\ eventsS' = Some(ev)
    /\ LET r == ComputeSightings(ev, DEFAULT_MIN_MINUTES) IN
       IF r.err # ""
       THEN /\ tryS' = "index_error" /\ retS' = SightingsExcept
            /\ sinceS' = SightingsExceptAge
            /\ UNCHANGED sightingCache
       ELSE /\ tryS' = IF r.sightings = <<>> THEN "empty" ELSE "fresh"
            /\ retS' = Ret(Some(r.sightings))
            /\ sinceS' = sinceS
            /\ last_valid_sightings' = Some(r.sightings)
            /\ last_successful_sighting_time' = Some(now)
    /\ UNCHANGED <<loop, flow>>
    /\ UNCHANGED <<now, rosterCache, tle, cycle, outcome, fetchesS, beforeS, jobA, jobP>>

\* find_events, the loop over the triples, the cache write and the return
SightCompute(ev) ==
    /\ pcS = "compute"
    /\ pcS' = "done"
    /\ eventsS' = Some(ev)
    /\ LET r == ComputeSightings(ev, DEFAULT_MIN_MINUTES) IN
       IF r.err # ""
       THEN /\ tryS' = "index_error" /\ retS' = SightingsExcept
            /\ sinceS' = SightingsExceptAge
            /\ UNCHANGED sightingCache
       ELSE IF r.sightings = <<>>
       THEN /\ tryS' = "empty" /\ retS' = Ret(Some(r.sightings))
            /\ sinceS' = sinceS
            /\ UNCHANGED sightingCache
       ELSE /\ tryS' = "fresh" /\ retS' = Ret(Some(r.sightings))
            /\ sinceS' = sinceS
            /\ last_valid_sightings' = Some(r.sightings)
            /\ last_successful_sighting_time' = Some(now)
    /\ UNCHANGED <<loop, flow>>
    /\ UNCHANGED <<now, rosterCache, tle, cycle, outcome, fetchesS, beforeS, jobA, jobP>>

\* ---------------------------------------------------------- _get_iss_position
PosLoadCheck ==
    /\ pcP = "start"
    /\ IF NeedsRefresh
       THEN pcP' = "download" /\ fetchesP' = fetchesP + 1
       ELSE pcP' = "open" /\ fetchesP' = fetchesP
    /\ UNCHANGED <<loop, flow>>
    /\ UNCHANGED <<now, rosterCache, sightingCache, tle, cycle, outcome, retP, jobA, jobS>>

\* the end of the download; OSError is caught and the job returns None
PosDownload(o) ==
    /\ pcP = "download"
    /\ IF o = "OSError"
       THEN pcP' = "done" /\ retP' = Ret(None) /\ tle' = tle
       ELSE pcP' = "open" /\ retP' = retP /\ tle' = TleFile(now, o)
    /\ UNCHANGED <<loop, flow>>
    /\ UNCHANGED <<now, rosterCache, sightingCache, cycle, outcome, fetchesP, jobA, jobS>>

\* the parse (ValueError is caught), the lookup, and the sub-point
PosOpen(sp) ==
    /\ pcP = "open"
    /\ pcP' = "done"
    /\ retP' = IF tle.content = "iss" THEN Ret(Some(sp)) ELSE Ret(None)
    /\ UNCHANGED <<loop, flow>>
    /\ UNCHANGED <<now, rosterCache, sightingCache, tle, cycle, outcome, fetchesP, jobA, jobS>>

\* --------------------------------------------------------- _async_update_data
\* asyncio.gather raises the first exception one of the jobs raises; the
\* except clause turns the caught kinds into UpdateFailed, any other escapes
\* as it is.  The other jobs stay in the executor.
CycleRaise ==
    /\ cycle = "running"
    /\ \E j \in 1..3 :
          LET r == <<retA, retS, retP>>[j] IN
          /\ r.st = "exc"
          /\ outcome' = [status |-> IF CaughtAsUpdateError(r.exc)
                                    THEN "UpdateFailed" ELSE r.exc,
                         data |-> None]
    /\ cycle' = "idle"
    /\ UNCHANGED <<loop, flow>>
    /\ UNCHANGED <<now, rosterCache, sightingCache, tle, jobA, jobS, jobP>>

\* the host cancels the task that awaits the gather while jobs are in flight:
\* the await is abandoned, the jobs already handed to the executor run on
CancelCycle ==
    /\ cycle = "running"
    /\ ~JobsAtRest
    /\ cycle' = "idle"
    /\ outcome' = [status |-> "cancelled", data |-> None]
    /\ UNCHANGED <<loop, flow>>
    /\ UNCHANGED <<now, rosterCache, sightingCache, tle, jobA, jobS, jobP>>

MergedData_LastSighting(astronaut_info, sightings, position) ==
    [latitude |-> position.latitude,
     longitude |-> position.longitude,
     elevation |-> position.elevation,
     all_sightings |-> sightings,
     astronaut_count |-> astronaut_info[1],
     astronaut_names |-> astronaut_info[2],
     next_sighting |-> IF TruthyList(sightings)
                       THEN Some(Val(sightings)[Len(Val(sightings))]) ELSE None]

\* the dict built from the three results
MergedData(astronaut_info, sightings, position) ==
    [latitude |-> position.latitude,
     longitude |-> position.longitude,
     elevation |-> position.elevation,
     all_sightings |-> sightings,
     astronaut_count |-> astronaut_info[1],
     astronaut_names |-> astronaut_info[2],
     next_sighting |-> IF TruthyList(sightings) THEN Some(Val(sightings)[1]) ELSE None]

\* the three jobs returned: position["latitude"] on None is a TypeError,
\* which the except clause does not catch
CycleMerge ==
    /\ cycle = "running"
    /\ retA.st = "ret" /\ retS.st = "ret" /\ retP.st = "ret"
    /\ LET position == Val(retP.val) IN
       outcome' = IF IsNone(position)
                  THEN [status |-> "TypeError", data |-> None]
                  ELSE [status |-> "ok",
                        data |-> Some(MergedData(Val(retA.val), Val(retS.val),
                                                 Val(position)))]
    /\ cycle' = "idle"
    /\ UNCHANGED <<loop, flow>>
    /\ UNCHANGED <<now, rosterCache, sightingCache, tle, jobA, jobS, jobP>>

Next ==
    \/ Tick
    \/ StartCycle
    \/ AstronautCheck
    \/ \E resp \in Responses : AstronautFetch(resp)
    \/ SightLoadCheck
    \/ \E o \in DownloadOutcomes : SightDownload(o)
    \/ SightOpen
    \/ \E ev \in EventCases : SightCompute(ev)
    \/ PosLoadCheck
    \/ \E o \in DownloadOutcomes : PosDownload(o)
    \/ \E sp \in SubPoints : PosOpen(sp)
    \/ CycleRaise
    \/ CycleMerge
    \/ CancelCycle

Spec == Init /\ [][Next]_vars

\* ------------------------------------- the loop of _get_skyfield_sightings
\* The loop over the events on its own, on every input of LoopInputs, in a
\* coordinator that is otherwise at rest.
InitLoop ==
    /\ now = 0
    /\ last_valid_astronaut_count = None
    /\ last_valid_astronaut_names = None
    /\ last_successful_astronaut_time = None
    /\ last_valid_sightings = None
    /\ last_successful_sighting_time = None
    /\ tle = NoTle
    /\ cycle = "idle"
    /\ outcome = NoOutcome
    /\ pcA = "idle" /\ retA = NoRet
    /\ pcS = "idle" /\ retS = NoRet
    /\ pcP = "idle" /\ retP = NoRet
    /\ requestsA = 0
    /\ tryA = ""
    /\ tryS = ""
    /\ sinceS = None
    /\ eventsS = None
    /\ fetchesS = 0 /\ fetchesP = 0
    /\ beforeS = ""
    /\ loop_pc = "input" /\ loop_in \in LoopInputs /\ loop_out = NoLoopOut
    /\ FlowOff

\* sightings = [], the for loop over range(0, len(events), 3) and, when the
\* loop ended without an error on a list that is not empty, the cache write
RunLoop ==
    /\ loop_pc = "input"
    /\ loop_pc' = "done"
    /\ LET r == ComputeSightings(loop_in.events, loop_in.min_minutes) IN
       /\ loop_out' = r
       /\ IF r.err = "" /\ r.sightings # <<>>
          THEN /\ last_valid_sightings' = Some(r.sightings)
               /\ last_successful_sighting_time' = Some(now)
          ELSE UNCHANGED sightingCache
    /\ UNCHANGED <<loop_in, now, rosterCache, tle, cycle, outcome, jobA, jobS, jobP>>
    /\ UNCHANGED flow

NextLoop == RunLoop

SpecLoop == InitLoop /\ [][NextLoop]_vars

\* ------------------------------------------------------------ the config flow
\* A flow of ISSSpotterConfigFlow on its own: an initial flow, or a
\* reconfigure flow on an entry that exists or has been removed meanwhile.
InitFlow ==
    /\ now = 0
    /\ last_valid_astronaut_count = None
    /\ last_valid_astronaut_names = None
    /\ last_successful_astronaut_time = None
    /\ last_valid_sightings = None
    /\ last_successful_sighting_time = None
    /\ tle = NoTle
    /\ cycle = "idle"
    /\ outcome = NoOutcome
    /\ pcA = "idle" /\ retA = NoRet
    /\ pcS = "idle" /\ retS = NoRet
    /\ pcP = "idle" /\ retP = NoRet
    /\ requestsA = 0
    /\ tryA = ""
    /\ tryS = ""
    /\ sinceS = None
    /\ eventsS = None
    /\ fetchesS = 0 /\ fetchesP = 0
    /\ beforeS = ""
    /\ loop_pc = "off" /\ loop_in = NoLoopIn /\ loop_out = NoLoopOut
    /\ flow_latitude = None /\ flow_longitude = None
    /\ flow_reconfigure_entry = None
    /\ flow_form = NoForm
    /\ flow_input = None
    /\ \/ flow_pc = "user" /\ config_entry = None
       \/ flow_pc = "reconfigure" /\ config_entry \in {None, Some(ExistingEntry)}

LatitudeInRange_NoLowerBound(latitude) == latitude <= 9000

\* -90.0 <= latitude <= 90.0
LatitudeInRange(latitude) == -9000 <= latitude /\ latitude <= 9000

\* -180.0 <= longitude <= 180.0
LongitudeInRange(longitude) == -18000 <= longitude /\ longitude <= 18000

\* the errors dict after the two range tests
LocationErrors(latitude, longitude) ==
    [latitude |-> IF ~LatitudeInRange(latitude) THEN "invalid_latitude" ELSE "",
     longitude |-> IF ~LongitudeInRange(longitude) THEN "invalid_longitude" ELSE ""]

\* `if self._latitude is None or self._longitude is None`
LocationUnset == IsNone(flow_latitude) \/ IsNone(flow_longitude)

\* async_step_user with the choice made; it goes on into async_step_location
\* without input, which shows the location form
FlowUser(use_ha_location) ==
    /\ flow_pc = "user"
    /\ flow_pc' = "location"
    /\ IF use_ha_location
       THEN /\ flow_latitude' = Some(HaLocation.latitude)
            /\ flow_longitude' = Some(HaLocation.longitude)
            /\ flow_form' = Form(FALSE, NoErrors)
       ELSE /\ UNCHANGED <<flow_latitude, flow_longitude>>
            /\ flow_form' = Form(LocationUnset, NoErrors)
    /\ UNCHANGED <<flow_reconfigure_entry, flow_input, config_entry>>
    /\ UNCHANGED <<loop, coordinator>>

\* async_step_reconfigure with the choice made: abort when the entry is
\* gone, else on into async_step_reconfigure_location without input
FlowReconfigure(use_ha_location) ==
    /\ flow_pc = "reconfigure"
    /\ IF IsNone(config_entry)
       THEN /\ flow_pc' = "abort_reconfigure_failed"
            /\ UNCHANGED <<flow_latitude, flow_longitude, flow_reconfigure_entry,
                           flow_form>>
       ELSE /\ flow_pc' = "reconfigure_location"
            /\ flow_reconfigure_entry' = config_entry
            /\ IF use_ha_location
               THEN /\ flow_latitude' = Some(HaLocation.latitude)
                    /\ flow_longitude' = Some(HaLocation.longitude)
                    /\ flow_form' = Form(FALSE, NoErrors)
               ELSE /\ UNCHANGED <<flow_latitude, flow_longitude>>
                    /\ flow_form' = Form(LocationUnset, NoErrors)
    /\ UNCHANGED <<flow_input, config_entry>>
    /\ UNCHANGED <<loop, coordinator>>

\* async_step_location with the form submitted
FlowLocation(user_input) ==
    /\ flow_pc = "location"
    /\ user_input \in UserInputs(flow_form.with_location)
    /\ flow_input' = Some(user_input)
    /\ IF LocationUnset
          /\ LocationErrors(Val(user_input.latitude), Val(user_input.longitude))
                 # NoErrors
       THEN /\ flow_pc' = "location"
            /\ flow_form' = Form(TRUE, LocationErrors(Val(user_input.latitude),
                                                      Val(user_input.longitude)))
            /\ UNCHANGED <<flow_latitude, flow_longitude, config_entry>>
       ELSE LET latitude == IF LocationUnset THEN user_input.latitude
                            ELSE flow_latitude
                longitude == IF LocationUnset THEN user_input.longitude
                             ELSE flow_longitude
            IN  /\ flow_latitude' = latitude
                /\ flow_longitude' = longitude
                /\ flow_pc' = "create_entry"
                /\ flow_form' = NoForm
                /\ config_entry' =
                       Some(ConfigEntry(<<"ISS Next Sightings ", user_input.entity_name>>,
                                        EntryData(user_input.entity_name,
                                                  latitude, longitude,
                                                  user_input.max_height,
                                                  user_input.sun_max_elevation,
                                                  user_input.min_minutes,
                                                  user_input.days)))
    /\ UNCHANGED flow_reconfigure_entry
    /\ UNCHANGED <<loop, coordinator>>

\* async_step_reconfigure_location with the form submitted
FlowReconfigureLocation(user_input) ==
    /\ flow_pc = "reconfigure_location"
    /\ user_input \in UserInputs(flow_form.with_location)
    /\ flow_input' = Some(user_input)
    /\ IF IsNone(flow_reconfigure_entry)
       THEN /\ flow_pc' = "abort_reconfigure_failed"
            /\ UNCHANGED <<flow_latitude, flow_longitude, flow_form, config_entry>>
       ELSE IF LocationUnset
               /\ LocationErrors(Val(user_input.latitude), Val(user_input.longitude))
                      # NoErrors
       THEN /\ flow_pc' = "reconfigure_location"
            /\ flow_form' = Form(TRUE, LocationErrors(Val(user_input.latitude),
                                                      Val(user_input.longitude)))
            /\ UNCHANGED <<flow_latitude, flow_longitude, config_entry>>
       ELSE LET latitude == IF LocationUnset THEN user_input.latitude
                            ELSE flow_latitude
                longitude == IF LocationUnset THEN user_input.longitude
                             ELSE flow_longitude
            IN  /\ flow_latitude' = latitude
                /\ flow_longitude' = longitude
                /\ flow_pc' = "abort_reconfigure_successful"
                /\ flow_form' = NoForm
                /\ config_entry' =
                       Some(ConfigEntry(Val(flow_reconfigure_entry).title,
                                        EntryData(user_input.entity_name,
                                                  latitude, longitude,
                                                  user_input.max_height,
                                                  user_input.sun_max_elevation,
                                                  user_input.min_minutes,
                                                  user_input.days)))
    /\ UNCHANGED flow_reconfigure_entry
    /\ UNCHANGED <<loop, coordinator>>

NextFlow ==
    \/ \E use_ha_location \in BOOLEAN : FlowUser(use_ha_location)
    \/ \E use_ha_location \in BOOLEAN : FlowReconfigure(use_ha_location)
    \/ \E user_input \in UserInputs(TRUE) \cup UserInputs(FALSE) :
           FlowLocation(user_input)
    \/ \E user_input \in UserInputs(TRUE) \cup UserInputs(FALSE) :
           FlowReconfigureLocation(user_input)

SpecFlow == InitFlow /\ [][NextFlow]_vars

\* ================================================================== claims
\* the steps that end a job
SightJobEnds == pcS # "done" /\ pcS' = "done"
AstronautFetchEnds == pcA = "fetch" /\ pcA' = "done"
CycleOver == cycle = "idle" /\ outcome.status # "none"
SightTryErrors == {"fetch_error", "parse_error", "index_error"}
RosterFetchErrors == {"ConnectionError", "HTTPError", "JSONDecodeError"}

\* C1: when the sighting job fails with an error while a stored list exists
\* whose age is at most the grace period (60 minutes included), the job
\* returns exactly the stored list and leaves the list and its timestamp as
\* they were.
C1_GraceFallback ==
    [][(/\ SightJobEnds
        /\ tryS' \in SightTryErrors
        /\ ~IsNone(last_valid_sightings)
        /\ ~IsNone(last_successful_sighting_time)
        /\ now - Val(last_successful_sighting_time) <= 60)
       => (/\ retS' = Ret(last_valid_sightings)
           /\ last_valid_sightings' = last_valid_sightings
           /\ last_successful_sighting_time' = last_successful_sighting_time)]_vars

\* a fetch or parse failure exactly 60 minutes after the last success has
\* been answered with the stored list
C1_Witness ==
    /\ pcS = "done"
    /\ tryS \in {"fetch_error", "parse_error"}
    /\ sinceS = Some(60)
    /\ retS = Ret(last_valid_sightings)
    /\ Len(Val(last_valid_sightings)) > 0

\* C2: when the sighting job fails and the stored list is older than the
\* grace period, the poll cycle ends in an update failure and publishes no
\* sighting result.
C2_ExpiredIsHardFailure ==
    (/\ CycleOver
     /\ pcS = "done"
     /\ tryS \in SightTryErrors
     /\ ~IsNone(sinceS)
     /\ Val(sinceS) > 60)
    => (outcome.status # "ok" /\ IsNone(outcome.data))

\* C3: whenever the position job reports the position as unavailable, the
\* cycle still completes with a snapshot that carries the sighting list and
\* the roster.
C3_PositionNeverFailsCycle ==
    (/\ CycleOver
     /\ retA.st = "ret" /\ retS.st = "ret"
     /\ retP = Ret(None))
    => (/\ outcome.status = "ok"
        /\ ~IsNone(outcome.data)
        /\ Val(outcome.data).all_sightings = Val(retS.val)
        /\ Val(outcome.data).astronaut_count = Val(retA.val)[1]
        /\ Val(outcome.data).astronaut_names = Val(retA.val)[2])

\* C4: a failure of one of the three jobs does not abort the cycle: it still
\* yields a merged snapshot.
C4_FailureDoesNotAbort ==
    (/\ CycleOver
     /\ retA.st = "exc"
     /\ retS.st # "exc" /\ retP.st # "exc")
    => (outcome.status = "ok" /\ ~IsNone(outcome.data))

\* C5: on a fetch failure of the roster job, a cached roster of any crew
\* size that is at most the grace period old is returned instead of a failure.
C5_RosterGraceAnySize ==
    [][(/\ AstronautFetchEnds
        /\ tryA' \in RosterFetchErrors
        /\ ~IsNone(last_valid_astronaut_count)
        /\ ~IsNone(last_valid_astronaut_names)
        /\ ~IsNone(last_successful_astronaut_time)
        /\ now - Val(last_successful_astronaut_time) <= 60)
       => retA' = Ret(<<Val(last_valid_astronaut_count),
                        Val(last_valid_astronaut_names)>>)]_vars

\* C6: every fetch failure of the roster job that finds no cached roster, or
\* one older than the grace period, surfaces as UpdateFailed and as no other
\* exception.
C6_OnlyUpdateFailedEscapes ==
    [][(/\ AstronautFetchEnds
        /\ tryA' # "ok"
        /\ \/ IsNone(last_valid_astronaut_count)
           \/ IsNone(last_successful_astronaut_time)
           \/ now - Val(last_successful_astronaut_time) > 60)
       => retA' = Raise("UpdateFailed")]_vars

\* C7: while a cached roster exists that is younger than the refresh
\* interval (30 minutes), the roster job returns the cached count and names,
\* makes no request, and leaves the cache and its timestamp as they were.
C7_FreshRosterServedFromCache ==
    [][(/\ pcA = "start" /\ pcA' # "start"
        /\ ~IsNone(last_valid_astronaut_count)
        /\ ~IsNone(last_valid_astronaut_names)
        /\ ~IsNone(last_successful_astronaut_time)
        /\ now - Val(last_successful_astronaut_time) < 30)
       => (/\ pcA' = "done"
           /\ retA' = Ret(<<Val(last_valid_astronaut_count),
                            Val(last_valid_astronaut_names)>>)
           /\ requestsA' = 0
           /\ last_valid_astronaut_count' = last_valid_astronaut_count
           /\ last_valid_astronaut_names' = last_valid_astronaut_names
           /\ last_successful_astronaut_time' = last_successful_astronaut_time)]_vars

\* a cycle in which the roster job answered from a cache holding an empty
\* crew, without a request
C7_Witness ==
    /\ cycle = "running"
    /\ pcA = "done"
    /\ requestsA = 0
    /\ last_valid_astronaut_count = Some(0)
    /\ now - Val(last_successful_astronaut_time) < 30
    /\ retA = Ret(<<0, <<>> >>)

\* C8: when the ISS is not found in the parsed elements while a stored list
\* exists within the grace period, the sighting job returns the stored list.
C8_NotFoundServesCache ==
    [][(/\ SightJobEnds
        /\ tryS' = "not_found"
        /\ ~IsNone(last_valid_sightings)
        /\ ~IsNone(last_successful_sighting_time)
        /\ now - Val(last_successful_sighting_time) <= 60)
       => retS' = Ret(last_valid_sightings)]_vars

\* C9: when the computation ends with no event or no qualifying sighting
\* while a stored list exists within the grace period, the sighting job
\* returns the stored list and not an empty list.
C9_EmptyServesCache ==
    [][(/\ SightJobEnds
        /\ tryS' = "empty"
        /\ ~IsNone(last_valid_sightings)
        /\ ~IsNone(last_successful_sighting_time)
        /\ now - Val(last_successful_sighting_time) <= 60)
       => retS' = Ret(last_valid_sightings)]_vars

\* the events up to the last complete triple
CompleteTriples(ev) == SubSeq(ev, 1, 3 * (Len(ev) \div 3))

\* C10: when the event sequence ends in an incomplete triple, the job
\* raises no error over it and returns the sightings of the complete passes
\* before it.
C10_TruncatedPassDropped ==
    (/\ pcS = "done"
     /\ ~IsNone(eventsS)
     /\ Len(Val(eventsS)) % 3 # 0)
    => (/\ tryS \notin SightTryErrors
        /\ retS = Ret(Some(ComputeSightings(CompleteTriples(Val(eventsS)),
                                            DEFAULT_MIN_MINUTES).sightings)))

\* -------------------------------- claims about the element file and the cycle
\* C12: on every access to the element file, a file that exists and is
\* younger than 3 days means no download and no write of the file by that
\* access; a missing file or one of 3 days or more means exactly one download
\* for that access.
C12_FetchOnlyWhenStale ==
    [][/\ (pcS = "start" /\ pcS' # "start") =>
              IF tle.exists /\ (now - tle.mtime) < 3 * 1440
              THEN fetchesS' = 0 /\ pcS' = "open" /\ tle' = tle
              ELSE fetchesS' = 1 /\ pcS' = "download"
       /\ (pcP = "start" /\ pcP' # "start") =>
              IF tle.exists /\ (now - tle.mtime) < 3 * 1440
              THEN fetchesP' = 0 /\ pcP' = "open" /\ tle' = tle
              ELSE fetchesP' = 1 /\ pcP' = "download"
       /\ (pcS # "start" /\ pcS' # "start") => fetchesS' = fetchesS
       /\ (pcP # "start" /\ pcP' # "start") => fetchesP' = fetchesP
       /\ (pcS' # pcS /\ fetchesS' = 0) => tle' = tle
       /\ (pcP' # pcP /\ fetchesP' = 0) => tle' = tle]_vars

\* the position job found the file fresh and fetched nothing; half an hour
\* later the sighting job finds the same file exactly 3 days old and fetches
C12_Witness ==
    /\ pcP = "open" /\ fetchesP = 0
    /\ pcS = "download" /\ fetchesS = 1
    /\ tle.exists /\ now - tle.mtime = 3 * 1440

\* C13: the sighting job and the position job are never both inside the
\* download of the element file, and neither parses the file while the other
\* is inside the download.
C13_NoConcurrentRefresh ==
    [][/\ ~(pcS' = "download" /\ pcP' = "download")
       /\ (pcS = "open" /\ pcS' # "open") => pcP # "download"
       /\ (pcP = "open" /\ pcP' # "open") => pcS # "download"]_vars

\* C14: once the host has cancelled a cycle, and until the next cycle starts,
\* no step changes the roster cache, the sighting cache or their timestamps.
C14_CancelCommitsNothing ==
    [][(cycle = "idle" /\ outcome.status = "cancelled")
       => UNCHANGED <<rosterCache, sightingCache>>]_vars

\* C15: a roster job or a sighting job that does not end with a fresh result
\* leaves the roster cache and the sighting cache, values and timestamps, as
\* they were; the position job never changes them; the roster job never
\* changes the sighting cache and the sighting job never changes the roster
\* cache.
C15_WritesOnlyOwnSlotOnSuccess ==
    [][/\ (pcA # "done" /\ pcA' = "done" /\ tryA' # "ok")
              => UNCHANGED <<rosterCache, sightingCache>>
       /\ (pcS # "done" /\ pcS' = "done" /\ tryS' # "fresh")
              => UNCHANGED <<rosterCache, sightingCache>>
       /\ pcP' # pcP => UNCHANGED <<rosterCache, sightingCache>>
       /\ pcA' # pcA => UNCHANGED sightingCache
       /\ pcS' # pcS => UNCHANGED rosterCache]_vars

\* both caches are filled; the sighting job failed and served its stored
\* list, the roster job failed past the grace period and raised
C15_Witness ==
    /\ pcS = "done" /\ tryS = "index_error"
    /\ retS = Ret(last_valid_sightings) /\ ~IsNone(last_valid_sightings)
    /\ pcA = "done" /\ tryA \in RosterFetchErrors
    /\ retA = Raise("UpdateFailed")
    /\ ~IsNone(last_valid_astronaut_names)
    /\ pcP = "done"

\* C16: a roster fetch that succeeds returns the roster it fetched, stores
\* that roster and sets the time of the last success to the present; a
\* sighting job that ends with a fresh list returns the list computed from
\* the events, stores it and sets the time of the last success to the
\* present, whatever the state of the source was before.
C16_SuccessRestoresFresh ==
    [][/\ (pcA = "fetch" /\ pcA' = "done" /\ tryA' = "ok") =>
              /\ \E resp \in Responses :
                    /\ ParseRoster(resp).err = ""
                    /\ retA' = Ret(<<Len(ParseRoster(resp).names),
                                     ParseRoster(resp).names>>)
              /\ last_valid_astronaut_count' = Some(Val(retA'.val)[1])
              /\ last_valid_astronaut_names' = Some(Val(retA'.val)[2])
              /\ last_successful_astronaut_time' = Some(now')
       /\ (pcS = "compute" /\ pcS' = "done" /\ tryS' = "fresh") =>
              /\ retS' = Ret(Some(ComputeSightings(Val(eventsS'),
                                                   DEFAULT_MIN_MINUTES).sightings))
              /\ last_valid_sightings' = Val(retS'.val)
              /\ last_successful_sighting_time' = Some(now')]_vars

\* the previous sighting job served the stored list or failed past the grace
\* period; this one ended fresh and the stored list is of the present
C16_Witness ==
    /\ beforeS \in {"Stale", "Failed"}
    /\ pcS = "done" /\ tryS = "fresh"
    /\ last_successful_sighting_time = Some(now)
    /\ now >= 61
    /\ retS.val = <<last_valid_sightings>>

\* C23: in the data of a cycle that succeeded, next_sighting is present
\* exactly when all_sightings is a non-empty list, and is then its first
\* element, also when the list came from the cache.
C23_NextIsFirstSighting ==
    outcome.status = "ok" =>
        LET data == Val(outcome.data) IN
        /\ IsNone(data.next_sighting) <=>
               (IsNone(data.all_sightings) \/ Val(data.all_sightings) = <<>>)
        /\ ~IsNone(data.next_sighting) =>
               Val(data.next_sighting) = Val(data.all_sightings)[1]

\* a cycle that published the stored list of two sightings after a failure
C23_Witness ==
    /\ outcome.status = "ok"
    /\ tryS \in SightTryErrors
    /\ ~IsNone(last_valid_sightings)
    /\ Val(outcome.data).all_sightings = last_valid_sightings
    /\ Len(Val(last_valid_sightings)) = 2
    /\ Val(outcome.data).next_sighting = Some(Val(last_valid_sightings)[1])

\* C25: a roster that the roster job returns without having fetched it, and
\* a non-empty sighting list that the sighting job returns without having
\* computed it, is the stored value, and the success that stored it is at
\* most 60 minutes old at that moment.
C25_BoundedStaleness ==
    [][/\ (pcA # "done" /\ pcA' = "done" /\ tryA' # "ok" /\ retA'.st = "ret") =>
              /\ ~IsNone(last_successful_astronaut_time)
              /\ retA' = Ret(<<Val(last_valid_astronaut_count),
                               Val(last_valid_astronaut_names)>>)
              /\ now' - Val(last_successful_astronaut_time) <= 60
       /\ (/\ pcS # "done" /\ pcS' = "done" /\ tryS' # "fresh"
           /\ retS'.st = "ret"
           /\ ~IsNone(Val(retS'.val))
           /\ Val(Val(retS'.val)) # <<>>) =>
              /\ retS' = Ret(last_valid_sightings)
              /\ now' - Val(last_successful_sighting_time) <= 60]_vars

\* the request failed exactly 60 minutes after the last success and the job
\* returned the stored roster
C25_Witness ==
    /\ pcA = "done" /\ tryA \in RosterFetchErrors
    /\ ~IsNone(last_successful_astronaut_time)
    /\ retA = Ret(<<Val(last_valid_astronaut_count), Val(last_valid_astronaut_names)>>)
    /\ now - Val(last_successful_astronaut_time) = 60

\* ------------------------------------------------ claims about the loop
\* the loop has run on one whole pass and has emitted its sighting
LoopEmittedOne ==
    /\ loop_pc = "done"
    /\ Len(loop_in.events) = 3
    /\ Len(loop_out.sightings) = 1
RiseAz == loop_in.events[1].az
Appear == loop_out.sightings[1].appear

\* C11: every triple the loop works on is the rise, the culmination and the
\* set of a pass, in that order, also when the events begin in the middle of
\* a pass.
C11_TriplesAreWholePasses ==
    loop_pc = "done" =>
        \A k \in 1..Len(loop_out.triples) :
            /\ loop_out.triples[k][1].kind = 0
            /\ loop_out.triples[k][2].kind = 1
            /\ loop_out.triples[k][3].kind = 2

\* C17 as stated: 0 deg gives N, 44.9 deg gives NE, 359.99 deg gives N and
\* 180 deg gives S.
C17_CompassExamples ==
    LoopEmittedOne =>
        /\ (RiseAz = 0 => Appear = "N")
        /\ (RiseAz = 4490 => Appear = "NE")
        /\ (RiseAz = 35999 => Appear = "N")
        /\ (RiseAz = 18000 => Appear = "S")

\* C17 as amended: 0 deg gives N, 44.9 deg gives NNE, 359.99 deg gives NNW
\* and 180 deg gives S.
C17_CompassExamplesAmended ==
    LoopEmittedOne =>
        /\ (RiseAz = 0 => Appear = "N")
        /\ (RiseAz = 4490 => Appear = "NNE")
        /\ (RiseAz = 35999 => Appear = "NNW")
        /\ (RiseAz = 18000 => Appear = "S")

\* a sighting of a pass that rose at 359.99 deg
C17_Witness == LoopEmittedOne /\ RiseAz = 35999 /\ Appear = "NNW"

\* the 16 labels of the rose, clockwise from north
Rose16 ==
    << "N", "NNE", "NE", "ENE", "E", "ESE", "SE", "SSE",
       "S", "SSW", "SW", "WSW", "W", "WNW", "NW", "NNW" >>

\* C18: for every azimuth in [0, 360] the direction is the label of the
\* 22.5-degree bucket, closed below and open above, that holds the azimuth,
\* and 360 deg gives N.
C18_HalfOpenBuckets ==
    (LoopEmittedOne /\ RiseAz >= 0 /\ RiseAz <= 36000) =>
        Appear = Rose16[((RiseAz \div 2250) % 16) + 1]

\* a sighting of a pass that rose at exactly 360 deg
C18_Witness == LoopEmittedOne /\ RiseAz = 36000 /\ Appear = "N"

\* the samples of the pass at which the satellite is sunlit under a dark sky
VisibleSamples ==
    {k \in DOMAIN loop_in.sky :
        loop_in.sky[k].sunlit /\ loop_in.sky[k].sun_alt < -600}
FirstVisible == CHOOSE k \in VisibleSamples : \A j \in VisibleSamples : k <= j
LastVisible == CHOOSE k \in VisibleSamples : \A j \in VisibleSamples : j <= k
VisibleSeconds == loop_in.sky[LastVisible].t - loop_in.sky[FirstVisible].t

\* C19: the start and the duration of a sighting are those of the window
\* from the first to the last visible sample of the pass.
C19_VisibleSubWindow ==
    (LoopEmittedOne /\ loop_in.sky # NoSky /\ VisibleSamples # {}) =>
        /\ loop_out.sightings[1].date = loop_in.sky[FirstVisible].t
                                         - (loop_in.sky[FirstVisible].t % 60)
        /\ loop_out.sightings[1].duration =
               <<VisibleSeconds \div 60, "m", VisibleSeconds % 60, "s">>

\* C20: a pass with at least one visible sample is not rejected for
\* visibility: when its visible window is long enough and the pass is not
\* longer than the maximum, it yields a sighting.
C20_AnyVisibleSampleKeepsPass ==
    (/\ loop_pc = "done"
     /\ loop_in.sky # NoSky
     /\ VisibleSamples # {}
     /\ VisibleSeconds \div 60 >= loop_in.min_minutes
     /\ (loop_in.events[3].t - loop_in.events[1].t) \div 60 <= 15)
    => Len(loop_out.sightings) = 1

\* the loop has run on the three events of one pass
LoopRanOnOnePass == loop_pc = "done" /\ Len(loop_in.events) = 3
CulminationSunAlt == loop_in.events[2].sun_alt
CulminationSunlit == loop_in.events[2].sunlit
RiseToSetSeconds == loop_in.events[3].t - loop_in.events[1].t

\* C21: a pass at whose culmination the Sun stands exactly at -6.00 deg
\* yields no sighting even when the satellite is sunlit; a pass with the Sun
\* below -6.00 deg and the satellite sunlit is taken as visible and, when its
\* duration passes the two duration filters, yields a sighting.
C21_StrictDarkness ==
    LoopRanOnOnePass =>
        /\ (CulminationSunAlt = -600 => loop_out.sightings = <<>>)
        /\ (/\ CulminationSunAlt < -600
            /\ CulminationSunlit
            /\ RiseToSetSeconds \div 60 >= loop_in.min_minutes
            /\ RiseToSetSeconds \div 60 <= 15)
           => Len(loop_out.sightings) = 1

\* the Sun exactly at the threshold, the satellite sunlit, a pass of ten
\* minutes: nothing is emitted
C21_Witness ==
    /\ LoopRanOnOnePass
    /\ CulminationSunAlt = -600 /\ CulminationSunlit
    /\ RiseToSetSeconds = 600
    /\ loop_out.sightings = <<>>

C24_DurationToTheSecond ==
    (LoopRanOnOnePass /\ loop_out.sightings # <<>>) =>
        LET d == loop_out.sightings[1].duration IN
        /\ Len(d) = 4 /\ d[2] = "m" /\ d[4] = "s"
        /\ d[3] >= 0 /\ d[3] < 60
        /\ d[1] * 60 + d[3] = RiseToSetSeconds

\* a pass of 959 seconds is reported as 15m59s
C24_Witness ==
    /\ LoopRanOnOnePass
    /\ RiseToSetSeconds = 959
    /\ Len(loop_out.sightings) = 1
    /\ loop_out.sightings[1].duration = <<15, "m", 59, "s">>

\* C26: no emitted sighting has more than 15 whole minutes; a pass of 16
\* minutes or more from rise to set yields no sighting; no sighting of more
\* than 15 whole minutes is in the stored list.
C26_MaximumDuration ==
    loop_pc = "done" =>
        /\ \A k \in 1..Len(loop_out.sightings) :
               loop_out.sightings[k].duration[1] <= 15
        /\ (Len(loop_in.events) = 3 /\ RiseToSetSeconds >= 16 * 60)
               => loop_out.sightings = <<>>
        /\ ~IsNone(last_valid_sightings) =>
               \A k \in 1..Len(Val(last_valid_sightings)) :
                   Val(last_valid_sightings)[k].duration[1] <= 15

\* a visible pass of exactly 16 minutes: nothing emitted, nothing stored
C26_Witness ==
    /\ LoopRanOnOnePass
    /\ CulminationSunAlt < -600 /\ CulminationSunlit
    /\ RiseToSetSeconds = 960
    /\ loop_out.sightings = <<>>
    /\ IsNone(last_valid_sightings)

\* --------------------------------------------- claims about the config flow
\* a location form with latitude and longitude fields is submitted
ManualSubmit ==
    /\ flow_pc \in {"location", "reconfigure_location"}
    /\ flow_form.with_location
    /\ flow_input' # flow_input
SubmittedLatitude == Val(Val(flow_input').latitude)
SubmittedLongitude == Val(Val(flow_input').longitude)

\* C27: in the location step and in the reconfigure location step, when the
\* latitude typed is outside [-90, 90] or the longitude outside [-180, 180],
\* the same form is shown again with invalid_latitude and invalid_longitude
\* under the fields that are out of range, the config entry is as it was and
\* self._latitude and self._longitude stay None; no config entry ever holds
\* a latitude or a longitude out of range.
C27_InvalidLocationRejected ==
    [][/\ (/\ ManualSubmit
           /\ \/ SubmittedLatitude < -9000 \/ SubmittedLatitude > 9000
              \/ SubmittedLongitude < -18000 \/ SubmittedLongitude > 18000)
          => /\ flow_pc' = flow_pc
             /\ flow_form'.with_location
             /\ flow_form'.errors.latitude = "invalid_latitude"
                    <=> (SubmittedLatitude < -9000 \/ SubmittedLatitude > 9000)
             /\ flow_form'.errors.longitude = "invalid_longitude"
                    <=> (SubmittedLongitude < -18000 \/ SubmittedLongitude > 18000)
             /\ config_entry' = config_entry
             /\ flow_latitude' = None /\ flow_longitude' = None
       /\ ~IsNone(config_entry') =>
             /\ Val(Val(config_entry').data.latitude) >= -9000
             /\ Val(Val(config_entry').data.latitude) <= 9000
             /\ Val(Val(config_entry').data.longitude) >= -18000
             /\ Val(Val(config_entry').data.longitude) <= 18000]_vars

\* the reconfigure location form shown again for a latitude of 90.01 deg and
\* a longitude of -180.01 deg, the entry untouched
C27_Witness ==
    /\ flow_pc = "reconfigure_location"
    /\ ~IsNone(flow_input)
    /\ Val(flow_input).latitude = Some(9001)
    /\ Val(flow_input).longitude = Some(-18001)
    /\ flow_form.errors = [latitude |-> "invalid_latitude",
                           longitude |-> "invalid_longitude"]
    /\ IsNone(flow_latitude) /\ IsNone(flow_longitude)
    /\ config_entry = Some(ExistingEntry)

====
